---------------------------- MODULE Spec2Model ----------------------------
(***************************************************************************)
(* Model of the text chunking engine of the file_parse service             *)
(* (src/file_parse/app/core/chunker.py).                                   *)
(*                                                                         *)
(* A text is a sequence of one-character strings.  Offsets are 0-based as  *)
(* in the Python source: offset p names the element t[p + 1].              *)
(***************************************************************************)
EXTENDS Integers, Sequences, FiniteSets, TLC

(***************************************************************************)
(* Bounds of the model.                                                    *)
(***************************************************************************)
MaxPieces == 3
MaxTextLen == 24

(***************************************************************************)
(* Program constants.                                                      *)
(***************************************************************************)
MIN_CHUNK_SIZE == 100
MAX_CHUNK_SIZE == 100000
DEFAULT_CHUNK_SIZE == 1000
DEFAULT_CHUNK_OVERLAP == 100
DEFAULT_SEPARATORS == << <<"\n", "\n">>, <<"\n">>, <<" ">>, <<>> >>
MAX_ITERATIONS_SLACK == 1000
MIN_ADJUSTABLE_LEN == 10
MIN_RETAINED_LEN == 10
MIN_HEX_LEN == 5
MIN_PATH_LEN == 3
URL_TAIL_WINDOW == 150
URL_TAIL_TOLERANCE == 10

(***************************************************************************)
(* Python values: None / a given argument, slices, min, max.               *)
(***************************************************************************)
None == <<>>
Some(v) == <<v>>
IsNone(a) == a = <<>>
ValueOf(a) == a[1]

Min(a, b) == IF a <= b THEN a ELSE b
Max(a, b) == IF a >= b THEN a ELSE b

\* t[a:b] for 0 <= a and 0 <= b (an end beyond len(t) is cut back to len(t))
Slice(t, a, b) == SubSeq(t, a + 1, Min(b, Len(t)))
\* t[p]
At(t, p) == t[p + 1]

\* int(chunk_size * 0.3) and int(chunk_size * 0.1): the float product
\* truncated toward zero, which for 1 <= chunk_size <= 100000 equals the
\* integer quotient.
ThirtyPercent(n) == (n * 3) \div 10
TenPercent(n) == n \div 10

(***************************************************************************)
(* Character classes of the regular expressions.                           *)
(***************************************************************************)
LowerOf ==
  ("A" :> "a") @@ ("B" :> "b") @@ ("C" :> "c") @@ ("D" :> "d") @@
  ("E" :> "e") @@ ("F" :> "f") @@ ("G" :> "g") @@ ("H" :> "h") @@
  ("I" :> "i") @@ ("J" :> "j") @@ ("K" :> "k") @@ ("L" :> "l") @@
  ("M" :> "m") @@ ("N" :> "n") @@ ("O" :> "o") @@ ("P" :> "p") @@
  ("Q" :> "q") @@ ("R" :> "r") @@ ("S" :> "s") @@ ("T" :> "t") @@
  ("U" :> "u") @@ ("V" :> "v") @@ ("W" :> "w") @@ ("X" :> "x") @@
  ("Y" :> "y") @@ ("Z" :> "z")
\* re.IGNORECASE: compare letters by their lower-case form
Lower(c) == IF c \in DOMAIN LowerOf THEN LowerOf[c] ELSE c

\* \s
IsSpace(c) == c \in {" ", "\t", "\n", "\r", "\f"}
\* [^\s\)]
IsTokenChar(c) == ~IsSpace(c) /\ c # ")"
\* [a-f0-9] under re.IGNORECASE
IsHex(c) == Lower(c) \in {"a", "b", "c", "d", "e", "f",
                          "0", "1", "2", "3", "4", "5", "6", "7", "8", "9"}
\* [a-zA-Z]
IsAlpha(c) == Lower(c) \in {"a", "b", "c", "d", "e", "f", "g", "h", "i", "j",
                            "k", "l", "m", "n", "o", "p", "q", "r", "s", "t",
                            "u", "v", "w", "x", "y", "z"}
\* [a-zA-Z0-9]
IsAlnum(c) == IsAlpha(c) \/ c \in {"0", "1", "2", "3", "4", "5", "6", "7", "8", "9"}

\* the literal w occurs in t at offset p
LitAt(t, p, w) ==
  /\ p >= 0
  /\ p + Len(w) <= Len(t)
  /\ \A k \in 1..Len(w) : t[p + k] = w[k]
\* the same, ignoring case (w is given in lower case)
LitAtNoCase(t, p, w) ==
  /\ p >= 0
  /\ p + Len(w) <= Len(t)
  /\ \A k \in 1..Len(w) : Lower(t[p + k]) = w[k]

\* membership in a character class named by cls
InClass(c, cls) ==
  IF cls = "token" THEN IsTokenChar(c)
  ELSE IF cls = "hex" THEN IsHex(c)
  ELSE IsAlnum(c)

\* offset just past the longest run of characters of class cls that starts
\* at offset p (p itself when there is none): a greedy [cls]*
RunEnd(t, p, cls) ==
  IF \A q \in p..(Len(t) - 1) : InClass(At(t, q), cls)
    THEN Max(p, Len(t))
    ELSE CHOOSE q \in p..(Len(t) - 1) :
           /\ ~InClass(At(t, q), cls)
           /\ \A r \in p..(q - 1) : InClass(At(t, r), cls)

\* the offsets at which `$' matches in t (no re.MULTILINE): the end of the
\* string, and just before a newline that ends the string
DollarEnds(t) ==
  {Len(t)} \cup (IF Len(t) > 0 /\ t[Len(t)] = "\n" THEN {Len(t) - 1} ELSE {})

\* str.find: lowest offset of w in t, or -1
Find(t, w) ==
  IF \E p \in 0..Len(t) : LitAt(t, p, w)
    THEN CHOOSE p \in 0..Len(t) :
           LitAt(t, p, w) /\ \A q \in 0..(p - 1) : ~LitAt(t, q, w)
    ELSE -1
\* str.rfind: highest offset of w in t, or -1
RFind(t, w) ==
  IF \E p \in 0..Len(t) : LitAt(t, p, w)
    THEN CHOOSE p \in 0..Len(t) :
           LitAt(t, p, w) /\ \A q \in (p + 1)..Len(t) : ~LitAt(t, q, w)
    ELSE -1

(***************************************************************************)
(* Literals of the regular expressions.                                    *)
(***************************************************************************)
HTTP_ == <<"h", "t", "t", "p", ":", "/", "/">>
HTTPS_ == <<"h", "t", "t", "p", "s", ":", "/", "/">>
MEDIA_DIRS == {<<"i", "m", "a", "g", "e", "s">>,
               <<"i", "m", "g">>,
               <<"a", "s", "s", "e", "t", "s">>,
               <<"m", "e", "d", "i", "a">>}
PATH_DIRS == MEDIA_DIRS \cup {<<"f", "i", "l", "e", "s">>,
                             <<"u", "p", "l", "o", "a", "d", "s">>,
                             <<"s", "t", "a", "t", "i", "c">>}
FILE_EXTS == <<<<"j", "p", "e", "g">>,
              <<"j", "p", "g">>,
              <<"p", "n", "g">>,
              <<"g", "i", "f">>,
              <<"s", "v", "g">>,
              <<"w", "e", "b", "p">>,
              <<"p", "d", "f">>,
              <<"d", "o", "c", "x">>,
              <<"x", "l", "s", "x">>,
              <<"p", "p", "t", "x">>>>

(***************************************************************************)
(* TextChunker._adjust_to_separator                                        *)
(***************************************************************************)
\* min_chunk_length
\* variant of MinChunkLength: a separator at any offset qualifies
MinChunkLengthNone(cs) == 0

\* min_chunk_length
MinChunkLength(cs) == Max(MIN_RETAINED_LEN, ThirtyPercent(cs))

\* the `for sep in self.separators' loop from the i-th separator on: the end
\* set by the first separator that qualifies, or end when none does
RECURSIVE SepScan(_, _, _, _, _, _)
SepScan(text, start, end, seps, cs, i) ==
  IF i > Len(seps) THEN end
  ELSE LET sep == seps[i]
           idx == RFind(Slice(text, start, end), sep)
           new_end == start + idx + Len(sep)
       IN  IF sep = <<>> THEN SepScan(text, start, end, seps, cs, i + 1)
           ELSE IF /\ idx # -1
                   /\ idx >= MinChunkLength(cs)
                   /\ new_end > start
                   /\ new_end <= end
                  THEN new_end
                  ELSE SepScan(text, start, end, seps, cs, i + 1)

\* a list in the opposite order
Reversed(s) == [i \in 1..Len(s) |-> s[Len(s) + 1 - i]]

\* variant of AdjustToSeparator: the separators are tried from the last of
\* the list to the first
AdjustToSeparatorReversed(text, start, end, seps, cs) ==
  IF end >= Len(text) THEN end
  ELSE IF end - start < MIN_ADJUSTABLE_LEN THEN end
  ELSE SepScan(text, start, end, Reversed(seps), cs, 1)

\* the end returned by _adjust_to_separator
AdjustToSeparator(text, start, end, seps, cs) ==
  IF end >= Len(text) THEN end
  ELSE IF end - start < MIN_ADJUSTABLE_LEN THEN end
  ELSE SepScan(text, start, end, seps, cs, 1)

(***************************************************************************)
(* TextChunker._avoid_splitting_images                                     *)
(***************************************************************************)
\* re.search(r'!\[[^\]]*\]\([^\)]*$', chunk) finds a match
IncompleteImage(chunk) ==
  \E e \in DollarEnds(chunk) : \E i \in 0..(Len(chunk) - 1) :
    /\ LitAt(chunk, i, <<"!", "[">>)
    /\ \E j \in (i + 2)..(e - 2) :
         /\ LitAt(chunk, j, <<"]", "(">>)
         /\ \A k \in (i + 2)..(j - 1) : At(chunk, k) # "]"
         /\ \A k \in (j + 2)..(e - 1) : At(chunk, k) # ")"

\* offset of the first character after `https?://' matched at offset p,
\* or -1
UrlBodyStart(t, p) ==
  IF LitAt(t, p, HTTPS_) THEN p + Len(HTTPS_)
  ELSE IF LitAt(t, p, HTTP_) THEN p + Len(HTTP_)
  ELSE -1

\* end of the match of url_pattern that starts at offset p, or -1
UrlMatchEnd(t, p) ==
  LET b == UrlBodyStart(t, p)
  IN  IF b = -1 THEN -1
      ELSE IF RunEnd(t, b, "token") > b THEN RunEnd(t, b, "token")
      ELSE -1

\* url_pattern.finditer(t) scanned from offset from: the end of the last
\* match, or last when there is no further match
RECURSIVE LastUrlEnd(_, _, _)
LastUrlEnd(t, from, last) ==
  IF \A p \in from..(Len(t) - 1) : UrlMatchEnd(t, p) = -1 THEN last
  ELSE LET p == CHOOSE q \in from..(Len(t) - 1) :
                  /\ UrlMatchEnd(t, q) # -1
                  /\ \A r \in from..(q - 1) : UrlMatchEnd(t, r) = -1
       IN  LastUrlEnd(t, UrlMatchEnd(t, p), UrlMatchEnd(t, p))

\* chunk_tail
ChunkTail(chunk) ==
  LET check_length == Min(URL_TAIL_WINDOW, Len(chunk))
  IN  IF check_length > 0
        THEN Slice(chunk, Len(chunk) - check_length, Len(chunk))
        ELSE chunk

\* variant of UrlAtTail: only a match that ends the tail counts
UrlAtTailExact(chunk) ==
  LET tail == ChunkTail(chunk)
      url_end_in_tail == LastUrlEnd(tail, 0, -1)
  IN  /\ url_end_in_tail # -1
      /\ url_end_in_tail >= Len(tail)

\* url_matches is non-empty and its last match ends near the end of the tail
UrlAtTail(chunk) ==
  LET tail == ChunkTail(chunk)
      url_end_in_tail == LastUrlEnd(tail, 0, -1)
  IN  /\ url_end_in_tail # -1
      /\ url_end_in_tail >= Len(tail) - URL_TAIL_TOLERANCE

\* re.search(relative_path_pattern, chunk, re.IGNORECASE) finds a match
RelPathAtTail(chunk) ==
  \E e \in DollarEnds(chunk) : \E p \in 0..(Len(chunk) - 1) :
    \E w \in MEDIA_DIRS :
      /\ At(chunk, p) = "/"
      /\ LitAtNoCase(chunk, p + 1, w)
      /\ LitAt(chunk, p + 1 + Len(w), <<"/">>)
      /\ LET h == p + 2 + Len(w)
             d == RunEnd(chunk, h, "hex")
         IN  /\ d - h >= MIN_HEX_LEN
             /\ LitAt(chunk, d, <<".">>)
             /\ \E x \in 1..Len(FILE_EXTS) :
                  /\ LitAtNoCase(chunk, d + 1, FILE_EXTS[x])
                  /\ d + 1 + Len(FILE_EXTS[x]) = e

\* length of the match of r'[a-f0-9]+\.(?:jpeg|...|pptx)' at the start of
\* rem (re.IGNORECASE), or 0 when it does not match
RelPathContinuation(rem) ==
  LET d == RunEnd(rem, 0, "hex")
  IN  IF /\ d >= 1
         /\ LitAt(rem, d, <<".">>)
         /\ \E x \in 1..Len(FILE_EXTS) : LitAtNoCase(rem, d + 1, FILE_EXTS[x])
        THEN LET x == CHOOSE y \in 1..Len(FILE_EXTS) :
                        /\ LitAtNoCase(rem, d + 1, FILE_EXTS[y])
                        /\ \A z \in 1..(y - 1) :
                             ~LitAtNoCase(rem, d + 1, FILE_EXTS[z])
             IN  d + 1 + Len(FILE_EXTS[x])
        ELSE 0

\* re.search(path_pattern, chunk, re.IGNORECASE) finds a match
PathAtTail(chunk) ==
  \E e \in DollarEnds(chunk) : \E p \in 0..(Len(chunk) - 1) :
    \E w \in PATH_DIRS :
      /\ At(chunk, p) = "/"
      /\ LitAtNoCase(chunk, p + 1, w)
      /\ LitAt(chunk, p + 1 + Len(w), <<"/">>)
      /\ LET b == p + 2 + Len(w)
         IN  /\ e - b >= MIN_PATH_LEN
             /\ \A q \in b..(e - 1) : IsTokenChar(At(chunk, q))

\* variant of AvoidSplittingImages: the image check takes the offset of the
\* closing parenthesis in remaining_text for an offset in text
AvoidSplittingImagesRelative(text, start, end) ==
  LET chunk == Slice(text, start, end)
      remaining_text == Slice(text, end, Len(text))
      close_paren == Find(remaining_text, <<")">>)
      token_run == RunEnd(remaining_text, 0, "token")
      rel_run == RelPathContinuation(remaining_text)
  IN  IF IncompleteImage(chunk) /\ close_paren # -1
        THEN [end |-> Min(close_paren + 1, Len(text)), kind |-> "image"]
      ELSE IF UrlAtTail(chunk) /\ token_run > 0
        THEN [end |-> Min(end + token_run, Len(text)), kind |-> "url"]
      ELSE IF RelPathAtTail(chunk) /\ rel_run > 0
        THEN [end |-> Min(end + rel_run, Len(text)), kind |-> "relpath"]
      ELSE IF PathAtTail(chunk) /\ token_run > 0
        THEN [end |-> Min(end + token_run, Len(text)), kind |-> "path"]
      ELSE [end |-> end, kind |-> "none"]

\* variant of AvoidSplittingImages: the URL check runs before the image check
AvoidSplittingImagesUrlFirst(text, start, end) ==
  LET chunk == Slice(text, start, end)
      remaining_text == Slice(text, end, Len(text))
      close_paren == Find(remaining_text, <<")">>)
      token_run == RunEnd(remaining_text, 0, "token")
      rel_run == RelPathContinuation(remaining_text)
  IN  IF UrlAtTail(chunk) /\ token_run > 0
        THEN [end |-> Min(end + token_run, Len(text)), kind |-> "url"]
      ELSE IF IncompleteImage(chunk) /\ close_paren # -1
        THEN [end |-> Min(end + close_paren + 1, Len(text)), kind |-> "image"]
      ELSE IF RelPathAtTail(chunk) /\ rel_run > 0
        THEN [end |-> Min(end + rel_run, Len(text)), kind |-> "relpath"]
      ELSE IF PathAtTail(chunk) /\ token_run > 0
        THEN [end |-> Min(end + token_run, Len(text)), kind |-> "path"]
      ELSE [end |-> end, kind |-> "none"]

\* The end returned by _avoid_splitting_images and the check that extended
\* it ("none" when the end is returned unchanged).
AvoidSplittingImages(text, start, end) ==
  LET chunk == Slice(text, start, end)
      remaining_text == Slice(text, end, Len(text))
      close_paren == Find(remaining_text, <<")">>)
      token_run == RunEnd(remaining_text, 0, "token")
      rel_run == RelPathContinuation(remaining_text)
  IN  IF IncompleteImage(chunk) /\ close_paren # -1
        THEN [end |-> Min(end + close_paren + 1, Len(text)), kind |-> "image"]
      ELSE IF UrlAtTail(chunk) /\ token_run > 0
        THEN [end |-> Min(end + token_run, Len(text)), kind |-> "url"]
      ELSE IF RelPathAtTail(chunk) /\ rel_run > 0
        THEN [end |-> Min(end + rel_run, Len(text)), kind |-> "relpath"]
      ELSE IF PathAtTail(chunk) /\ token_run > 0
        THEN [end |-> Min(end + token_run, Len(text)), kind |-> "path"]
      ELSE [end |-> end, kind |-> "none"]

(***************************************************************************)
(* TextChunker.__init__ and TextChunker.chunk                              *)
(***************************************************************************)
\* self.chunk_size, self.chunk_overlap and self.separators as __init__ sets
\* them from its arguments (None and, for separators, the empty list fall
\* back to the settings)
FieldChunkSize(a) == IF IsNone(a) THEN DEFAULT_CHUNK_SIZE ELSE ValueOf(a)
FieldChunkOverlap(a) == IF IsNone(a) THEN DEFAULT_CHUNK_OVERLAP ELSE ValueOf(a)
FieldSeparators(a) ==
  IF IsNone(a) \/ ValueOf(a) = <<>> THEN DEFAULT_SEPARATORS ELSE ValueOf(a)

\* variant of ConfigError: a chunk_size of 0 is not refused
ConfigErrorAllowsZero(cs, ov) ==
  \/ cs # -1 /\ cs < 0
  \/ cs # -1 /\ ov >= cs

\* variant of ConfigError: the overlap check written with > instead of >=
ConfigErrorOffByOne(cs, ov) ==
  \/ cs # -1 /\ cs <= 0
  \/ cs # -1 /\ ov > cs

\* __init__ raises ValueError
ConfigError(cs, ov) ==
  \/ cs # -1 /\ cs <= 0
  \/ cs # -1 /\ ov >= cs

\* variant of FastPath: the length test written with < instead of <=
FastPathStrict(t, cs) == cs = -1 \/ Len(t) < cs

\* chunk returns [text] without entering the loop
FastPath(t, cs) == cs = -1 \/ Len(t) <= cs

\* variant of TentativeEnd: the slice taken one character too long
TentativeEndLong(t, s, cs) ==
  LET end == Min(s + cs + 1, Len(t))
  IN  IF end <= s THEN s + 1 ELSE end

\* variant of TentativeEnd: the end not limited to the length of the text
TentativeEndUnclamped(t, s, cs) ==
  LET end == s + cs
  IN  IF end <= s THEN s + 1 ELSE end

\* the end of the loop body before the adjustments
TentativeEnd(t, s, cs) ==
  LET end == Min(s + cs, Len(t))
  IN  IF end <= s THEN s + 1 ELSE end

\* variant of MinProgress: the floor of one character left out
MinProgressNoFloor(cs) == TenPercent(cs)

\* min_progress
MinProgress(cs) == Max(1, TenPercent(cs))

\* variant of NextStart: the progress test written with < instead of <=
NextStartWeak(s, end, cs, ov) ==
  LET new_start == end - ov
  IN  IF new_start < s THEN s + MinProgress(cs) ELSE new_start

\* variant of NextStart: forced progress counted from end instead of start
NextStartFromEnd(s, end, cs, ov) ==
  LET new_start == end - ov
  IN  IF new_start <= s THEN end + MinProgress(cs) ELSE new_start

\* variant of NextStart: one character more overlap than configured
NextStartExtraOverlap(s, end, cs, ov) ==
  LET new_start == end - ov - 1
  IN  IF new_start <= s THEN s + MinProgress(cs) ELSE new_start

\* the start of the next iteration
NextStart(s, end, cs, ov) ==
  LET new_start == end - ov
  IN  IF new_start <= s THEN s + MinProgress(cs) ELSE new_start

(***************************************************************************)
(* Inputs.                                                                 *)
(***************************************************************************)
SizeArgs == {None, Some(-2), Some(-1), Some(0), Some(1), Some(2), Some(12),
             Some(14)}
OverlapArgs == {None, Some(-1), Some(0), Some(1), Some(11), Some(12), Some(14)}
SeparatorArgs == {None, Some(<<>>), Some(<< <<"\n">> >>)}

Pieces == {<<"a", "b", " ", "c", "d">>,
           <<"\n">>,
           <<"!", "[", "p", "]", "(", "h", "t", "t", "p", ":", "/", "/", "x", "/", "y", ".", "p", "n", "g", ")">>,
           <<"h", "t", "t", "p", ":", "/", "/", "x", "/", "y", "z">>,
           <<"/", "i", "m", "g", "/", "a", "b", "c", "d", "e", ".", "p", "n", "g">>,
           <<"f", ".", "g", "i", "f">>,
           <<"(", " ", "b", "c">>}

\* the concatenations of at most k pieces that are no longer than MaxTextLen
RECURSIVE TextsOf(_)
TextsOf(k) ==
  IF k = 0 THEN {<<>>}
  ELSE TextsOf(k - 1) \cup
       {t \o p : <<t, p>> \in
          {x \in TextsOf(k - 1) \X Pieces : Len(x[1]) + Len(x[2]) <= MaxTextLen}}
Texts == TextsOf(MaxPieces)

(***************************************************************************)
(* State.                                                                  *)
(***************************************************************************)
VARIABLES
  pc,               \* "new", "rejected", "ready", "loop", "done"
  chunk_size,       \* self.chunk_size
  chunk_overlap,    \* self.chunk_overlap
  separators,       \* self.separators
  text,             \* the argument of the chunk call in progress
  start,            \* local start of chunk
  iteration_count,  \* local iteration_count of chunk
  max_iterations,   \* local max_iterations of chunk
  chunks,           \* local chunks of chunk; the returned list once pc = "done"
  segs,             \* history of the loop: the offsets of every appended chunk
  breaker,          \* the loop was left through the max_iterations branch
  previous,         \* history of the calls: <<>> or one earlier call of chunk
                    \* on this chunker, with its text, the list it returned
                    \* and the configuration it ran under
  request,          \* <<>> or the ParseRequest that passed validation
  handler,          \* position of parse_file: "idle", "invalid", "valid",
                    \* "exists", "parsed", "replaced", or the status it
                    \* ended with: "404", "500"
  steps,            \* history of parse_file: the steps that have returned
  ocr,              \* the call of recognize_and_format: its position, the
                    \* engine, its arguments and locals, the language
                    \* passed to _get_reader and the 'language' returned
  detection         \* <<>> or the call of detect_chinese_type that has
                    \* returned: its text, its counts and its result

vars == <<pc, chunk_size, chunk_overlap, separators, text, start,
          iteration_count, max_iterations, chunks, segs, breaker, previous,
          request, handler, steps, ocr, detection>>

chunker_vars == <<pc, chunk_size, chunk_overlap, separators, start,
                  iteration_count, max_iterations, chunks, segs, breaker,
                  previous>>

handler_vars == <<request, handler, steps>>

ocr_vars == <<ocr, detection>>

call_vars == <<text, start, iteration_count, max_iterations, chunks, segs,
               breaker>>

Init ==
  /\ pc = "new"
  /\ chunk_size = 0
  /\ chunk_overlap = 0
  /\ separators = <<>>
  /\ text = <<>>
  /\ start = 0
  /\ iteration_count = 0
  /\ max_iterations = 0
  /\ chunks = <<>>
  /\ segs = <<>>
  /\ breaker = FALSE
  /\ previous = <<>>
  /\ request = <<>>
  /\ handler = "idle"
  /\ steps = <<>>
  /\ ocr = [at |-> "idle", engine |-> "", auto_detect_lang |-> FALSE,
            lang |-> None, reader_lang |-> None, language |-> None,
            total_lines |-> 0]
  /\ detection = <<>>

\* TextChunker(size_arg, overlap_arg, sep_arg) with the arguments drawn from
\* the given sets
ConstructFrom(sizes, overlaps, seps) ==
  /\ pc = "new"
  /\ \E size_arg \in sizes, overlap_arg \in overlaps, sep_arg \in seps :
       /\ chunk_size' = FieldChunkSize(size_arg)
       /\ chunk_overlap' = FieldChunkOverlap(overlap_arg)
       /\ separators' = FieldSeparators(sep_arg)
  /\ pc' = IF ConfigError(chunk_size', chunk_overlap') THEN "rejected"
           ELSE "ready"
  /\ UNCHANGED <<call_vars, previous, handler_vars, ocr_vars>>

Construct == ConstructFrom(SizeArgs, OverlapArgs, SeparatorArgs)

\* variant of CallChunk: the list of chunks is not created anew by the call
CallChunkKeepingChunks(t) ==
  /\ text' = t
  /\ start' = 0
  /\ iteration_count' = 0
  /\ breaker' = FALSE
  /\ IF FastPath(t, chunk_size)
       THEN /\ chunks' = <<t>>
            /\ segs' = <<>>
            /\ max_iterations' = 0
            /\ pc' = "done"
       ELSE /\ chunks' = chunks
            /\ segs' = <<>>
            /\ max_iterations' = Len(t) + MAX_ITERATIONS_SLACK
            /\ pc' = "loop"
  /\ UNCHANGED <<chunk_size, chunk_overlap, separators, handler_vars, ocr_vars>>

\* chunk(t) up to the loop: the fast path returns, otherwise the loop locals
\* are initialised; self is not assigned
CallChunk(t) ==
  /\ text' = t
  /\ start' = 0
  /\ iteration_count' = 0
  /\ breaker' = FALSE
  /\ IF FastPath(t, chunk_size)
       THEN /\ chunks' = <<t>>
            /\ segs' = <<>>
            /\ max_iterations' = 0
            /\ pc' = "done"
       ELSE /\ chunks' = <<>>
            /\ segs' = <<>>
            /\ max_iterations' = Len(t) + MAX_ITERATIONS_SLACK
            /\ pc' = "loop"
  /\ UNCHANGED <<chunk_size, chunk_overlap, separators, handler_vars, ocr_vars>>

\* the first call of chunk, for a text of the given set, on a chunker fresh
\* from its construction (the service builds one chunker per request and
\* calls chunk on it once)
ChunkOf(texts) ==
  /\ pc = "ready"
  /\ \E t \in texts : CallChunk(t)
  /\ UNCHANGED previous

\* a further call of chunk on a chunker whose last call has returned; the
\* history either keeps the call it holds or takes the call that returned
ChunkAgainOf(texts) ==
  /\ pc = "done"
  /\ \E t \in texts : CallChunk(t)
  /\ \/ UNCHANGED previous
     \/ previous' = <<[text |-> text, chunks |-> chunks,
                       config |-> <<chunk_size, chunk_overlap, separators>>]>>

ChunkBegin == ChunkOf(Texts)

\* one iteration of `while start < text_len', and the return when it is the
\* last one
LoopIter ==
  /\ pc = "loop"
  /\ start < Len(text)
  /\ iteration_count' = iteration_count + 1
  /\ IF iteration_count' > max_iterations
       THEN /\ breaker' = TRUE
            /\ pc' = "done"
            /\ UNCHANGED <<start, chunks, segs>>
       ELSE LET tentative == TentativeEnd(text, start, chunk_size)
                sep_end == AdjustToSeparator(text, start, tentative,
                                             separators, chunk_size)
                prot == AvoidSplittingImages(text, start, sep_end)
                end == IF prot.end <= start THEN start + 1 ELSE prot.end
                new_start == NextStart(start, end, chunk_size, chunk_overlap)
            IN  /\ chunks' = Append(chunks, Slice(text, start, end))
                /\ segs' = Append(segs, [start |-> start,
                                         tentative |-> tentative,
                                         sep_end |-> sep_end,
                                         end |-> end,
                                         kind |-> prot.kind])
                /\ start' = new_start
                /\ pc' = IF new_start >= Len(text) THEN "done" ELSE "loop"
                /\ UNCHANGED breaker
  /\ UNCHANGED <<chunk_size, chunk_overlap, separators, text, max_iterations,
                 previous, handler_vars, ocr_vars>>

Next == Construct \/ ChunkBegin \/ LoopIter

Spec == Init /\ [][Next]_vars

(***************************************************************************)
(* The worked examples: long plain texts and the image reference of the    *)
(* examples, chunked under the configurations the examples name.           *)
(***************************************************************************)
\* a text of n plain ASCII characters without any separator
PlainText(n) == [i \in 1..n |-> "a"]

ExamplePlainLens == {2500, 5000}
ExampleImage == <<"!", "[", "p", "i", "c", "]", "(", "h", "t", "t", "p", ":",
                  "/", "/", "x", "/", "y", ".", "p", "n", "g", ")">>

\* the same image reference without its closing parenthesis
ExampleImageOpen == SubSeq(ExampleImage, 1, Len(ExampleImage) - 1)

ExampleTexts ==
  {PlainText(n) : n \in ExamplePlainLens}
    \cup {ExampleImage, ExampleImage \o <<" ", "a", "n", "d", " ", "m", "o",
                                          "r", "e">>}
    \cup {ExampleImageOpen}

ExampleSizeArgs == {Some(7), Some(1000), Some(4950), Some(4990)}
ExampleOverlapArgs == {Some(0), Some(100), Some(4949), Some(4989)}
ExampleSeparatorArgs == {Some(<<>>)}

ConstructExample ==
  ConstructFrom(ExampleSizeArgs, ExampleOverlapArgs, ExampleSeparatorArgs)

ChunkExample == ChunkOf(ExampleTexts)

NextExamples == ConstructExample \/ ChunkExample \/ LoopIter

SpecExamples == Init /\ [][NextExamples]_vars

(***************************************************************************)
(* Chunkers constructed with separators=[].                                *)
(***************************************************************************)
EmptySeparatorArgs == {Some(<<>>)}

ConstructEmptySeparators ==
  ConstructFrom(SizeArgs, OverlapArgs, EmptySeparatorArgs)

NextEmptySeparators == ConstructEmptySeparators \/ ChunkBegin \/ LoopIter

SpecEmptySeparators == Init /\ [][NextEmptySeparators]_vars

(***************************************************************************)
(* Repeated calls of chunk on one chunker, for the texts of one piece.     *)
(***************************************************************************)
RepeatTexts == {<<>>} \cup Pieces

ChunkFirst == ChunkOf(RepeatTexts)

ChunkAgain == ChunkAgainOf(RepeatTexts)

NextRepeat == Construct \/ ChunkFirst \/ ChunkAgain \/ LoopIter

SpecRepeat == Init /\ [][NextRepeat]_vars

(***************************************************************************)
(* ParseRequest and parse_file up to the replacement of the base64 images. *)
(***************************************************************************)
\* validate_chunk_size raises for a given value
ChunkSizeError(v) == v # -1 /\ (v < MIN_CHUNK_SIZE \/ v > MAX_CHUNK_SIZE)

\* request.chunk_size: an omitted field takes its default, and its
\* validator (declared without always=True) is not run
RequestChunkSize(size_arg) ==
  IF IsNone(size_arg) THEN DEFAULT_CHUNK_SIZE ELSE ValueOf(size_arg)

\* values.get("chunk_size", settings.DEFAULT_CHUNK_SIZE) in
\* validate_chunk_overlap: a chunk_size that failed its validation is not in
\* values
ValuesChunkSize(size_arg) ==
  IF IsNone(size_arg) \/ ChunkSizeError(ValueOf(size_arg))
    THEN DEFAULT_CHUNK_SIZE
    ELSE ValueOf(size_arg)

\* the constraint ge=0 or validate_chunk_overlap raises for a given value
ChunkOverlapError(size_arg, v) ==
  \/ v < 0
  \/ ValuesChunkSize(size_arg) # -1 /\ v >= ValuesChunkSize(size_arg)

\* request.chunk_overlap: the default for an omitted field, without
\* validation; otherwise what validate_chunk_overlap returns
RequestChunkOverlap(size_arg, overlap_arg) ==
  IF IsNone(overlap_arg) THEN DEFAULT_CHUNK_OVERLAP
  ELSE IF ValuesChunkSize(size_arg) = -1 THEN 0
  ELSE ValueOf(overlap_arg)

\* request.separators
RequestSeparators(sep_arg) ==
  IF IsNone(sep_arg) THEN DEFAULT_SEPARATORS ELSE ValueOf(sep_arg)

\* the construction of the ParseRequest raises a validation error
ValidationError(size_arg, overlap_arg) ==
  \/ ~IsNone(size_arg) /\ ChunkSizeError(ValueOf(size_arg))
  \/ ~IsNone(overlap_arg) /\ ChunkOverlapError(size_arg, ValueOf(overlap_arg))

\* the parameters of ImageHandler.replace_images_with_urls after self
REPLACE_IMAGES_PARAMETERS == {"md_text"}

\* the keyword arguments of the call of replace_images_with_urls in
\* parse_file
REPLACE_IMAGES_KEYWORDS == {"format_url"}

RequestSizeArgs == {None, Some(-1), Some(0), Some(99), Some(100), Some(101),
                    Some(100000), Some(100001)}
RequestOverlapArgs == {None, Some(-1), Some(0), Some(99), Some(100),
                       Some(101)}
RequestSeparatorArgs == {None, Some(<<>>)}

\* the body of a POST /parse is validated into a ParseRequest, or refused
ValidateRequest ==
  /\ handler = "idle"
  /\ \E size_arg \in RequestSizeArgs, overlap_arg \in RequestOverlapArgs,
        sep_arg \in RequestSeparatorArgs :
       IF ValidationError(size_arg, overlap_arg)
         THEN /\ handler' = "invalid"
              /\ UNCHANGED request
         ELSE /\ handler' = "valid"
              /\ request' =
                   <<[chunk_size |-> RequestChunkSize(size_arg),
                      chunk_overlap |->
                        RequestChunkOverlap(size_arg, overlap_arg),
                      separators |-> RequestSeparators(sep_arg)]>>
  /\ UNCHANGED <<steps, text, chunker_vars, ocr_vars>>

\* parse_file: os.path.exists(file_path)
CheckFile ==
  /\ handler = "valid"
  /\ \E exists \in BOOLEAN : handler' = IF exists THEN "exists" ELSE "404"
  /\ UNCHANGED <<request, steps, text, chunker_vars, ocr_vars>>

\* parse_file: parser.parse returns md_text, or raises RuntimeError
ParseStep ==
  /\ handler = "exists"
  /\ \/ \E md_text \in RepeatTexts :
          /\ text' = md_text
          /\ steps' = Append(steps, "parse")
          /\ handler' = "parsed"
     \/ /\ handler' = "500"
        /\ UNCHANGED <<text, steps>>
  /\ UNCHANGED <<request, chunker_vars, ocr_vars>>

\* parse_file: the call of image_handler.replace_images_with_urls; a keyword
\* argument the function does not have raises TypeError, which parse_file
\* turns into the HTTP 500 response
ReplaceImagesStep ==
  /\ handler = "parsed"
  /\ IF REPLACE_IMAGES_KEYWORDS \subseteq REPLACE_IMAGES_PARAMETERS
       THEN /\ steps' = Append(steps, "replace_images")
            /\ handler' = "replaced"
       ELSE /\ handler' = "500"
            /\ UNCHANGED steps
  /\ UNCHANGED <<request, text, chunker_vars, ocr_vars>>

NextRequest == ValidateRequest \/ CheckFile \/ ParseStep \/ ReplaceImagesStep

SpecRequest == Init /\ [][NextRequest]_vars

(***************************************************************************)
(* OCRService.recognize_and_format.                                        *)
(***************************************************************************)
\* _normalize_lang(lang, is_traditional) under the given engine; lang is
\* None or Some(code)
NormalizeLang(engine, lang, is_traditional) ==
  IF ~IsNone(lang) /\ ValueOf(lang) # ""
    THEN IF engine = "paddle"
           THEN IF ValueOf(lang) \in {"ch_tra", "chinese_cht", "traditional"}
                  THEN "chinese_cht"
                  ELSE "ch"
           ELSE IF ValueOf(lang) \in {"ch", "chinese_cht", "traditional"}
                  THEN IF ValueOf(lang) \in {"chinese_cht", "traditional"}
                         THEN "ch_tra"
                         ELSE "ch_sim"
                ELSE IF ValueOf(lang) \in {"ch_tra", "ch_sim"}
                  THEN ValueOf(lang)
                ELSE "ch_sim"
    ELSE IF engine = "paddle"
           THEN IF is_traditional THEN "chinese_cht" ELSE "ch"
           ELSE IF is_traditional THEN "ch_tra" ELSE "ch_sim"

ENGINES == {"paddle", "easy"}

\* the values of lang OCRRequest.validate_lang lets through
LangArgs == {None, Some("ch"), Some("ch_sim"), Some("chinese_cht"),
             Some("ch_tra"), Some("simplified"), Some("traditional")}

MaxLines == 2

\* recognize_and_format(image_path, auto_detect_lang, lang) is called on a
\* service with one of the engines
OcrCall ==
  /\ ocr.at = "idle"
  /\ \E engine \in ENGINES, auto \in BOOLEAN, lang_arg \in LangArgs :
       ocr' = [ocr EXCEPT !.at = "called", !.engine = engine,
                          !.auto_detect_lang = auto, !.lang = lang_arg]
  /\ UNCHANGED <<text, chunker_vars, handler_vars, detection>>

\* recognize_and_format: lang = detect_language(image_path)[0], for a text
\* found traditional or not (no text and an error give the simplified code)
OcrDetect ==
  /\ ocr.at = "called"
  /\ IsNone(ocr.lang) /\ ocr.auto_detect_lang
  /\ \E is_traditional \in BOOLEAN :
       ocr' = [ocr EXCEPT !.at = "detected",
                          !.lang = Some(NormalizeLang(ocr.engine, None,
                                                      is_traditional))]
  /\ UNCHANGED <<text, chunker_vars, handler_vars, detection>>

\* recognize_image(image_path, auto_detect_lang=False, lang=lang): the
\* language is normalised, passed to _get_reader, and the reader returns
\* some lines
OcrRecognize ==
  /\ \/ ocr.at = "detected"
     \/ ocr.at = "called" /\ ~(IsNone(ocr.lang) /\ ocr.auto_detect_lang)
  /\ \E n \in 0..MaxLines :
       ocr' = [ocr EXCEPT !.at = "recognized",
                          !.reader_lang =
                            Some(NormalizeLang(ocr.engine, ocr.lang, FALSE)),
                          !.total_lines = n]
  /\ UNCHANGED <<text, chunker_vars, handler_vars, detection>>

\* recognize_and_format returns: 'language' is lang if lang else
\* _normalize_lang(None, False)
OcrReturn ==
  /\ ocr.at = "recognized"
  /\ ocr' = [ocr EXCEPT !.at = "returned",
                        !.language =
                          IF ~IsNone(ocr.lang) /\ ValueOf(ocr.lang) # ""
                            THEN ocr.lang
                            ELSE Some(NormalizeLang(ocr.engine, None, FALSE))]
  /\ UNCHANGED <<text, chunker_vars, handler_vars, detection>>

NextOcr == OcrCall \/ OcrDetect \/ OcrRecognize \/ OcrReturn

SpecOcr == Init /\ [][NextOcr]_vars

(***************************************************************************)
(* ChineseDetector.detect_chinese_type; characters are their code points.  *)
(***************************************************************************)
TRADITIONAL_CHARS ==
  {20013, 20219, 20272, 20316, 20358, 20418, 20439, 20540, 20659, 20729,
   20736, 20778, 20856, 21033, 21046, 21069, 21109, 21123, 21151, 21155,
   21209, 21218, 21237, 21270, 21319, 21332, 21512, 21521, 21578, 21697,
   21806, 21839, 22266, 22283, 22296, 22411, 22519, 22577, 22659, 22686,
   23041, 23416, 23450, 23458, 23529, 23531, 23560, 23637, 23660, 24230,
   24335, 24375, 24418, 24433, 24501, 24565, 24605, 24615, 24819, 24847,
   24907, 24931, 24950, 25074, 25104, 25136, 25142, 25216, 25345, 25361,
   25552, 25913, 25928, 25972, 25991, 26032, 26041, 26085, 26131, 26178,
   26360, 26371, 26381, 26399, 26410, 26463, 26524, 26680, 26684, 26989,
   27083, 27161, 27231, 27402, 27969, 28304, 28310, 28317, 28608, 28639,
   29151, 29229, 29305, 29518, 29694, 29702, 29872, 29987, 29992, 30053,
   30070, 30332, 30410, 30435, 30446, 30563, 30701, 31150, 31243, 31337,
   31478, 31649, 31680, 31684, 32004, 32026, 32068, 32080, 32113, 32147,
   32318, 32321, 32340, 32396, 32624, 32681, 32722, 32771, 33021, 33029,
   34269, 34892, 34899, 34920, 35215, 35264, 35328, 35336, 35352, 35373,
   35413, 35486, 35519, 35672, 35696, 35712, 35722, 36001, 36012, 36031,
   36039, 36074, 36264, 36681, 36890, 36914, 36935, 36939, 37327, 37559,
   37636, 38263, 38291, 38321, 38364, 38538, 38570, 38761, 38799, 38911,
   38917, 38988, 39080, 39636, 40670}

SIMPLIFIED_CHARS ==
  {19987, 19994, 20013, 20041, 20064, 20070, 20105, 20135, 20202, 20215,
   20219, 20248, 20250, 20256, 20272, 20307, 20316, 20439, 20540, 20851,
   20856, 20889, 20934, 21010, 21019, 21033, 21046, 21069, 21151, 21153,
   21155, 21169, 21183, 21270, 21319, 21327, 21457, 21464, 21512, 21521,
   21578, 21697, 21709, 21806, 22242, 22266, 22269, 22411, 22659, 22686,
   22870, 23041, 23398, 23450, 23457, 23458, 23637, 23646, 24041, 24198,
   24230, 24335, 24378, 24403, 24405, 24418, 24433, 24449, 24565, 24577,
   24605, 24615, 24809, 24815, 24819, 24847, 25104, 25112, 25143, 25191,
   25216, 25253, 25345, 25361, 25552, 25913, 25928, 25972, 25991, 26032,
   26041, 26085, 26102, 26131, 26381, 26399, 26410, 26415, 26426, 26435,
   26463, 26469, 26500, 26524, 26631, 26680, 26684, 27807, 27969, 27982,
   28304, 28608, 28857, 29305, 29615, 29616, 29702, 29992, 30053, 30410,
   30417, 30446, 30563, 30701, 31036, 31243, 31283, 31454, 31616, 31649,
   31995, 32422, 32423, 32452, 32455, 32463, 32467, 32479, 32489, 32493,
   32602, 32771, 32961, 33021, 33402, 33410, 33539, 33829, 34892, 34920,
   35266, 35268, 35328, 35745, 35758, 35760, 35774, 35780, 35782, 35821,
   35835, 35843, 36130, 36131, 36136, 36152, 36164, 36235, 36716, 36816,
   36827, 36890, 36935, 37327, 38144, 38271, 38382, 38388, 38405, 38431,
   38505, 38761, 39033, 39064, 39118}

\* the default threshold 0.3, as a fraction
THRESHOLD_NUM == 3
THRESHOLD_DEN == 10

\* traditional_count after the loop over the text: the test for
\* TRADITIONAL_CHARS comes first
TraditionalCount(t) ==
  Cardinality({i \in 1..Len(t) : t[i] \in TRADITIONAL_CHARS})

\* simplified_count after the loop over the text: the elif branch
SimplifiedCount(t) ==
  Cardinality({i \in 1..Len(t) : /\ t[i] \notin TRADITIONAL_CHARS
                                 /\ t[i] \in SIMPLIFIED_CHARS})

\* the first component of the result of detect_chinese_type(t); the
\* comparison traditional_count / total_chinese >= 0.3 is made on integers
DetectChineseType(t) ==
  LET traditional_count == TraditionalCount(t)
      total_chinese == traditional_count + SimplifiedCount(t)
  IN  IF t = <<>> THEN "simplified"
      ELSE IF total_chinese = 0 THEN "simplified"
      ELSE IF traditional_count * THRESHOLD_DEN >= THRESHOLD_NUM * total_chinese
        THEN "traditional"
      ELSE "simplified"

\* the code points of four characters: one in both sets, one only in
\* TRADITIONAL_CHARS, one only in SIMPLIFIED_CHARS, one in neither
DetectorAlphabet == {20013, 39636, 20307, 97}

MaxDetectorLen == 4

DetectorTexts ==
  UNION {[1..n -> DetectorAlphabet] : n \in 0..MaxDetectorLen}

\* a call of detect_chinese_type with the default threshold
DetectCall ==
  /\ detection = <<>>
  /\ \E t \in DetectorTexts :
       detection' = <<[text |-> t,
                       traditional_count |-> TraditionalCount(t),
                       simplified_count |-> SimplifiedCount(t),
                       chinese_type |-> DetectChineseType(t)]>>
  /\ UNCHANGED <<text, chunker_vars, handler_vars, ocr>>

NextDetector == DetectCall

SpecDetector == Init /\ [][NextDetector]_vars

(***************************************************************************)
(* Notions the properties are stated in.                                   *)
(***************************************************************************)
\* the call of chunk has returned
Returned == pc = "done"
\* the call went through the loop (the fast path records no offsets)
Looped == segs # <<>>

\* t[i:j] is a complete Markdown image reference ![alt](target)
IsImageRef(t, i, j) ==
  /\ LitAt(t, i, <<"!", "[">>)
  /\ j <= Len(t)
  /\ At(t, j - 1) = ")"
  /\ \E k \in (i + 2)..(j - 3) :
       /\ LitAt(t, k, <<"]", "(">>)
       /\ \A q \in (i + 2)..(k - 1) : At(t, q) # "]"
       /\ \A q \in (k + 2)..(j - 2) : At(t, q) # ")"

\* t[i:j] is a match of url_pattern that starts at i
IsUrl(t, i, j) == UrlMatchEnd(t, i) = j

\* end of the match of `[^\s\)]+\.[a-zA-Z0-9]+' at offset b, or -1
PathBodyEnd(t, b) ==
  LET r == RunEnd(t, b, "token")
      dots == {d \in (b + 1)..(r - 2) : At(t, d) = "." /\ IsAlnum(At(t, d + 1))}
  IN  IF dots = {} THEN -1
      ELSE LET d == CHOOSE x \in dots : \A y \in dots : y <= x
           IN  RunEnd(t, d + 1, "alnum")

\* t[i:j] is a match of the group of path_pattern: an absolute Unix path or
\* a drive-letter path with an extension, after the start of the text, a
\* white-space character or an opening parenthesis
IsAbsPath(t, i, j) ==
  /\ i >= 0 /\ i < Len(t)
  /\ i = 0 \/ IsSpace(At(t, i - 1)) \/ At(t, i - 1) = "("
  /\ \/ At(t, i) = "/" /\ PathBodyEnd(t, i + 1) = j
     \/ /\ IsAlpha(At(t, i))
        /\ LitAt(t, i + 1, <<":", "\\">>)
        /\ PathBodyEnd(t, i + 3) = j

\* the offsets at which a returned segment starts or ends, other than the
\* two ends of the text
InnerBoundaries ==
  {b \in {segs[k].start : k \in 1..Len(segs)} \cup
         {segs[k].end : k \in 1..Len(segs)} : b # 0 /\ b # Len(text)}

\* every segment's part beyond the end of the segment before it, in order
RECURSIVE BeyondPrevious(_, _, _)
BeyondPrevious(t, sg, i) ==
  IF i > Len(sg) THEN <<>>
  ELSE LET prev_end == IF i = 1 THEN sg[1].start ELSE sg[i - 1].end
           part == IF sg[i].end > prev_end
                     THEN Slice(t, Max(sg[i].start, prev_end), sg[i].end)
                     ELSE <<>>
       IN  part \o BeyondPrevious(t, sg, i + 1)

\* the furthest end among the first n segments
FurthestEnd(sg, n) ==
  IF n = 0 THEN 0
  ELSE CHOOSE e \in {sg[k].end : k \in 1..n} :
         \A k \in 1..n : sg[k].end <= e

\* every segment's part beyond the furthest end of all segments before it
RECURSIVE BeyondCovered(_, _, _)
BeyondCovered(t, sg, i) ==
  IF i > Len(sg) THEN <<>>
  ELSE LET covered == IF i = 1 THEN sg[1].start ELSE FurthestEnd(sg, i - 1)
           part == IF sg[i].end > covered
                     THEN Slice(t, Max(sg[i].start, covered), sg[i].end)
                     ELSE <<>>
       IN  part \o BeyondCovered(t, sg, i + 1)

(***************************************************************************)
(* Properties.                                                             *)
(***************************************************************************)

\* C1: when chunk_size is -1 or the text is no longer than chunk_size, the
\* returned list is exactly one segment, the whole text.
C1_WholeTextWhenShort ==
  Returned /\ (chunk_size = -1 \/ Len(text) <= chunk_size)
    => chunks = <<text>>

\* a call returned for a text exactly chunk_size long
C1_Witness ==
  /\ Returned
  /\ chunk_size > 0
  /\ chunk_overlap > 0
  /\ Len(text) = chunk_size
  /\ chunks = <<text>>

\* C2: the start offsets of the emitted segments are strictly increasing, and
\* the start of the coming iteration is beyond the start of the last one.
C2_StartsStrictlyIncrease ==
  /\ \A i \in 1..(Len(segs) - 1) : segs[i + 1].start > segs[i].start
  /\ Looped => start > segs[Len(segs)].start

\* a run in which progress was forced: the next start is not end - overlap
C2_Witness ==
  /\ Returned
  /\ Len(segs) >= 3
  /\ \E i \in 1..(Len(segs) - 1) :
       segs[i + 1].start # segs[i].end - chunk_overlap

\* C3: the loop never runs more than len(text) iterations, so the iteration
\* count stays within max_iterations = len(text) + 1000 and the branch that
\* abandons the loop is never taken; the loop has ended once start has
\* reached the end of the text.
C3_IterationsBounded ==
  /\ breaker = FALSE
  /\ pc \in {"loop", "done"} /\ max_iterations > 0 =>
       /\ iteration_count <= Len(text)
       /\ iteration_count <= max_iterations
       /\ iteration_count = Len(segs)
  /\ pc = "loop" => start < Len(text)
  /\ Returned /\ Looped => start >= Len(text)

\* a returned run with the largest legal overlap that took one iteration per
\* character of the text
C3_Witness ==
  /\ Returned
  /\ chunk_size > 1
  /\ chunk_overlap = chunk_size - 1
  /\ Len(text) > chunk_size
  /\ iteration_count = Len(text)

C5_NoImageRefSplit ==
  Returned /\ chunk_overlap >= 0 =>
    \A b \in InnerBoundaries :
      ~\E i \in 0..(b - 1), j \in (b + 1)..Len(text) : IsImageRef(text, i, j)

\* C6: for a configuration with 0 <= chunk_overlap, no segment boundary lies
\* strictly inside a complete URL or absolute path of the text, unless that
\* token runs to the end of the text.
C6_NoUrlOrPathSplit ==
  Returned /\ chunk_overlap >= 0 =>
    \A b \in InnerBoundaries :
      ~\E i \in 0..(b - 1), j \in (b + 1)..(Len(text) - 1) :
         IsUrl(text, i, j) \/ IsAbsPath(text, i, j)

\* C7: a segment is at most chunk_size long up to the separator adjustment;
\* it is longer than chunk_size only by the one extension of the protector
\* check that fired, and not at all when none fired.
C7_LengthBound ==
  \A k \in 1..Len(segs) :
    /\ segs[k].sep_end - segs[k].start <= chunk_size
    /\ segs[k].end - segs[k].start
         <= chunk_size + (segs[k].end - segs[k].sep_end)
    /\ segs[k].kind = "none" => segs[k].end - segs[k].start <= chunk_size
    /\ segs[k].end >= segs[k].sep_end

\* a returned run with a segment made longer than chunk_size by the protector
C7_Witness ==
  /\ Returned
  /\ \E k \in 1..Len(segs) :
       /\ segs[k].kind # "none"
       /\ segs[k].end - segs[k].start > chunk_size

\* C8: construction fails when chunk_size is neither -1 nor positive or when
\* chunk_overlap >= chunk_size with chunk_size # -1, and then no chunking has
\* been done; it succeeds when chunk_size = -1 or 0 <= chunk_overlap <
\* chunk_size.
C8_ConstructorValidation ==
  pc # "new" =>
    /\ ~(chunk_size = -1 \/ chunk_size > 0) => pc = "rejected"
    /\ chunk_size # -1 /\ chunk_overlap >= chunk_size => pc = "rejected"
    /\ chunk_size = -1 \/ (0 <= chunk_overlap /\ chunk_overlap < chunk_size)
         => pc # "rejected"
    /\ pc = "rejected" => chunks = <<>> /\ segs = <<>> /\ iteration_count = 0

\* a construction refused because chunk_overlap equals a positive chunk_size
C8_Witness ==
  /\ pc = "rejected"
  /\ chunk_size > 0
  /\ chunk_overlap = chunk_size

\* C9: a chunker that was constructed with chunk_size # -1 has
\* 0 <= chunk_overlap < chunk_size.
C9_OverlapInRange ==
  pc \in {"ready", "loop", "done"} /\ chunk_size # -1 =>
    0 <= chunk_overlap /\ chunk_overlap < chunk_size

\* C10: two consecutive segments share at most chunk_overlap characters.
C10_OverlapBound ==
  \A i \in 1..(Len(segs) - 1) :
    segs[i].end - segs[i + 1].start > 0 =>
      segs[i].end - segs[i + 1].start <= chunk_overlap

\* a returned run with two consecutive segments sharing exactly chunk_overlap
\* characters, and two sharing fewer because progress was forced
C10_Witness ==
  /\ Returned
  /\ chunk_overlap > 0
  /\ \E i \in 1..(Len(segs) - 1) :
       segs[i].end - segs[i + 1].start = chunk_overlap
  /\ \E i \in 1..(Len(segs) - 1) :
       /\ segs[i].end - segs[i + 1].start > 0
       /\ segs[i].end - segs[i + 1].start < chunk_overlap

\* C11 as stated: 2500 plain characters, chunk_size 1000, chunk_overlap 100,
\* separators []: exactly 3 segments, starting at 0, 900 and 1800, the last
\* ending at 2500.
C11_Example2ThreeSegments ==
  /\ Returned
  /\ Len(text) = 2500
  /\ \A p \in 1..Len(text) : text[p] = "a"
  /\ chunk_size = 1000
  /\ chunk_overlap = 100
  => /\ Len(chunks) = 3
     /\ Len(segs) = 3
     /\ segs[1].start = 0
     /\ segs[2].start = 900
     /\ segs[3].start = 1800
     /\ segs[3].end = 2500

\* C12 as stated: on the 5000-character plain text with chunk_overlap =
\* chunk_size - 1, every iteration advances start by at least
\* max(1, floor(0.1 * chunk_size)).
C12_AdvanceAtLeastTenPercent ==
  Len(text) = 5000 /\ chunk_overlap = chunk_size - 1 /\ Looped =>
    /\ \A i \in 1..(Len(segs) - 1) :
         segs[i + 1].start - segs[i].start >= Max(1, TenPercent(chunk_size))
    /\ start - segs[Len(segs)].start >= Max(1, TenPercent(chunk_size))

\* C12 amended: on the 5000-character plain text with chunk_overlap =
\* chunk_size - 1 the loop does not stall: every iteration advances start by
\* at least 1, and an iteration whose end - chunk_overlap is not beyond its
\* start advances by exactly max(1, floor(0.1 * chunk_size)); the loop ends
\* within len(text) iterations.
C12_AdvanceAtLeastOne ==
  Len(text) = 5000 /\ chunk_overlap = chunk_size - 1 /\ Looped =>
    /\ \A i \in 1..Len(segs) :
         LET next == IF i = Len(segs) THEN start ELSE segs[i + 1].start
             step == next - segs[i].start
         IN  /\ step >= 1
             /\ segs[i].end - chunk_overlap <= segs[i].start
                  => step = Max(1, TenPercent(chunk_size))
             /\ segs[i].end - chunk_overlap > segs[i].start
                  => next = segs[i].end - chunk_overlap
    /\ iteration_count <= Len(text)
    /\ breaker = FALSE

\* a returned run on the 5000-character text with the largest legal overlap in
\* which one iteration advanced by a single character although ten percent of
\* chunk_size is more, and another one was forced forward
C12_Witness ==
  /\ Returned
  /\ Len(text) = 5000
  /\ chunk_overlap = chunk_size - 1
  /\ TenPercent(chunk_size) > 1
  /\ \E i \in 1..(Len(segs) - 1) : segs[i + 1].start = segs[i].start + 1
  /\ \E i \in 1..(Len(segs) - 1) :
       /\ segs[i].end - chunk_overlap <= segs[i].start
       /\ segs[i + 1].start = segs[i].start + TenPercent(chunk_size)

\* C13 as stated: every returned segment is non-empty, for every text, the
\* empty one included.
C13_SegmentsNonEmpty ==
  Returned => \A k \in 1..Len(chunks) : chunks[k] # <<>>

\* C13 amended: for a non-empty text every returned segment is non-empty
\* (start < end), ends at or before len(text) and is the slice
\* text[start:end] of the text; the fast path returns the text itself, which
\* for the empty text is one empty segment.
C13_SegmentsAreSlices ==
  /\ \A k \in 1..Len(segs) :
       /\ 0 <= segs[k].start
       /\ segs[k].start < segs[k].end
       /\ segs[k].end <= Len(text)
       /\ chunks[k] = SubSeq(text, segs[k].start + 1, segs[k].end)
       /\ Len(chunks[k]) = segs[k].end - segs[k].start
  /\ Looped => Len(chunks) = Len(segs)
  /\ Returned /\ ~Looped => chunks = <<text>>
  /\ Returned /\ text # <<>> => \A k \in 1..Len(chunks) : chunks[k] # <<>>

\* a returned run of the loop whose last segment is a single character, and
\* whose text was cut by a separator and extended by the protector
C13_Witness ==
  /\ Returned
  /\ Len(segs) >= 3
  /\ segs[Len(segs)].end - segs[Len(segs)].start = 1
  /\ \E k \in 1..Len(segs) : segs[k].sep_end < segs[k].tentative
  /\ \E k \in 1..Len(segs) : segs[k].end > segs[k].sep_end

\* C14: chunk leaves the configuration of the chunker as it was, and a call
\* returns the same list as any earlier call on the same text, whatever calls
\* were made in between.
C14_CallsAreIndependent ==
  previous # <<>> =>
    /\ previous[1].config = <<chunk_size, chunk_overlap, separators>>
    /\ Returned /\ previous[1].text = text => chunks = previous[1].chunks

\* a later call through the loop has returned for the text of a call the
\* history holds, with the same list of several chunks
C14_Witness ==
  /\ Returned
  /\ previous # <<>>
  /\ previous[1].text = text
  /\ Len(chunks) >= 2
  /\ chunks = previous[1].chunks

\* the slice text[start:end] the separators are searched in, in iteration k
SegChunk(k) == Slice(text, segs[k].start, segs[k].tentative)

\* the i-th separator is not empty and its right-most occurrence in the slice
\* of iteration k is at an offset >= max(10, floor(0.3 * chunk_size))
SepQualifies(k, i) ==
  /\ separators[i] # <<>>
  /\ RFind(SegChunk(k), separators[i]) >= Max(10, (3 * chunk_size) \div 10)

\* some separator qualifies in iteration k
SomeSepQualifies(k) == \E i \in 1..Len(separators) : SepQualifies(k, i)

\* the end just after the right-most occurrence of the first separator, in
\* list order, that qualifies in iteration k
SnappedEnd(k) ==
  LET i == CHOOSE j \in 1..Len(separators) :
             /\ SepQualifies(k, j)
             /\ \A h \in 1..(j - 1) : ~SepQualifies(k, h)
  IN  segs[k].start + RFind(SegChunk(k), separators[i]) + Len(separators[i])

\* C15 as stated: in every iteration the end is set just after the right-most
\* occurrence of the first separator of the list that qualifies, and is left
\* alone when none qualifies.
C15_SnapsToFirstQualifying ==
  \A k \in 1..Len(segs) :
    segs[k].sep_end = IF SomeSepQualifies(k) THEN SnappedEnd(k)
                      ELSE segs[k].tentative

\* C15: in every iteration whose tentative end is before the end of the
\* text, the end is set just after the right-most occurrence of the first
\* separator of the list that qualifies, whatever lower-priority separators
\* occur further right, and is left alone when none qualifies (the empty
\* separator never qualifies); a tentative end at the end of the text is
\* left alone.
C15_SnapsToFirstQualifyingBeforeEnd ==
  \A k \in 1..Len(segs) :
    segs[k].sep_end = IF /\ segs[k].tentative < Len(text)
                         /\ SomeSepQualifies(k)
                        THEN SnappedEnd(k)
                        ELSE segs[k].tentative

\* an end was set after a separator although a separator later in the list
\* occurs further right in the slice
C15_Witness ==
  \E k \in 1..Len(segs) :
    /\ segs[k].tentative < Len(text)
    /\ SomeSepQualifies(k)
    /\ segs[k].sep_end = SnappedEnd(k)
    /\ \E j \in 1..Len(separators) :
         /\ separators[j] # <<>>
         /\ segs[k].start + RFind(SegChunk(k), separators[j]) >= segs[k].sep_end

\* C16: separator adjustment never moves the end forward, and when it moves
\* the end the segment that is left is at least max(10, floor(0.3 *
\* chunk_size)) long and the new end is beyond start.
C16_SnapOnlyBackward ==
  \A k \in 1..Len(segs) :
    /\ segs[k].sep_end <= segs[k].tentative
    /\ segs[k].sep_end # segs[k].tentative =>
         /\ segs[k].sep_end - segs[k].start >= Max(10, (3 * chunk_size) \div 10)
         /\ segs[k].sep_end > segs[k].start

\* separator adjustment has moved an end backward
C16_Witness ==
  \E k \in 1..Len(segs) : segs[k].sep_end < segs[k].tentative

\* C17: in every iteration the emitted end is the end the protector returns
\* for the end separator adjustment left; it is never before that end and
\* never beyond the end of the text.
C17_ProtectorAfterSnap ==
  \A k \in 1..Len(segs) :
    /\ segs[k].end >= segs[k].sep_end
    /\ segs[k].end <= Len(text)
    /\ segs[k].end =
         AvoidSplittingImages(text, segs[k].start, segs[k].sep_end).end

\* an end moved backward by separator adjustment was then moved forward by
\* the protector
C17_Witness ==
  \E k \in 1..Len(segs) :
    /\ segs[k].sep_end < segs[k].tentative
    /\ segs[k].end > segs[k].sep_end

\* the chunk of iteration k as the protector receives it
ProtectedChunk(k) == Slice(text, segs[k].start, segs[k].sep_end)

\* the offsets of the closing parentheses at or after the end the protector
\* receives in iteration k
ClosingAfter(k) ==
  {q \in segs[k].sep_end..(Len(text) - 1) : At(text, q) = ")"}

\* C18: when the end the protector receives lies inside an image reference
\* that is opened and not closed in the chunk, and a closing parenthesis
\* follows in the text, the emitted end is just past the first such
\* parenthesis; the text `![pic](http://x/y.png)' under chunk_size 7 is
\* returned as one segment.
C18_ImageExtendedPastParen ==
  /\ \A k \in 1..Len(segs) :
       IncompleteImage(ProtectedChunk(k)) /\ ClosingAfter(k) # {} =>
         /\ segs[k].end - 1 \in ClosingAfter(k)
         /\ \A q \in ClosingAfter(k) : segs[k].end - 1 <= q
  /\ Returned /\ text = ExampleImage /\ chunk_size = 7 =>
       chunks = <<ExampleImage>>

\* the example: the first chunk was cut just after the opening parenthesis
\* of the image reference and extended to its closing parenthesis
C18_Witness ==
  /\ Returned
  /\ text = ExampleImage
  /\ Len(segs) = 1
  /\ segs[1].sep_end = 7
  /\ At(text, segs[1].sep_end - 1) = "("
  /\ segs[1].end = Len(ExampleImage)

\* C19: when the image check finds an unclosed image reference at the end of
\* the chunk and no closing parenthesis follows in the text, or the URL or
\* general path check finds its token at the end of the chunk and the run of
\* characters it scans goes on to the end of the text, the emitted end is
\* the end of the text.
C19_ExtendsToEndOfText ==
  \A k \in 1..Len(segs) :
    LET chunk == ProtectedChunk(k)
        rem == Slice(text, segs[k].sep_end, Len(text))
    IN  \/ IncompleteImage(chunk) /\ ClosingAfter(k) = {}
        \/ /\ ~IncompleteImage(chunk)
           /\ \/ UrlAtTail(chunk)
              \/ PathAtTail(chunk) /\ ~RelPathAtTail(chunk)
           /\ rem # <<>>
           /\ RunEnd(rem, 0, "token") = Len(rem)
        => segs[k].end = Len(text)

\* the text after the end the protector receives in iteration k
RemainingText(k) == Slice(text, segs[k].sep_end, Len(text))

\* the image check of iteration k finds an unclosed image reference and a
\* closing parenthesis to extend to
ImageFires(k) == IncompleteImage(ProtectedChunk(k)) /\ ClosingAfter(k) # {}

\* the URL check of iteration k finds a URL at the end of the chunk and
\* characters to extend over
UrlFires(k) ==
  UrlAtTail(ProtectedChunk(k)) /\ RunEnd(RemainingText(k), 0, "token") > 0

\* C20: in every iteration the checks are made in the order image reference,
\* URL, path and the first that extends the end decides it: an image
\* extension whenever the image check can extend, a URL extension only when
\* the image check did not extend, a path extension only when neither did,
\* and the emitted end is the end received plus that one extension.
C20_FirstExtensionOnly ==
  \A k \in 1..Len(segs) :
    LET e == segs[k].sep_end
        run == RunEnd(RemainingText(k), 0, "token")
    IN  /\ ImageFires(k) <=> segs[k].kind = "image"
        /\ ~ImageFires(k) /\ UrlFires(k) <=> segs[k].kind = "url"
        /\ segs[k].kind \in {"relpath", "path"} =>
             ~ImageFires(k) /\ ~UrlFires(k)
        /\ segs[k].kind = "image" =>
             /\ segs[k].end - 1 \in ClosingAfter(k)
             /\ \A q \in ClosingAfter(k) : segs[k].end - 1 <= q
        /\ segs[k].kind \in {"url", "path"} => segs[k].end = e + run
        /\ segs[k].kind = "relpath" =>
             segs[k].end = e + RelPathContinuation(RemainingText(k))
        /\ segs[k].kind = "none" => segs[k].end = e

\* the image check extended an end, and a second pass of the protector over
\* the extended chunk would have extended it again
C20_Witness ==
  \E k \in 1..Len(segs) :
    /\ segs[k].kind = "image"
    /\ AvoidSplittingImages(text, segs[k].start, segs[k].end).kind # "none"

\* offset b lies strictly inside a complete image reference, a URL or an
\* absolute path of the text
InsideToken(b) ==
  \E i \in 0..(b - 1), j \in (b + 1)..Len(text) :
    IsImageRef(text, i, j) \/ IsUrl(text, i, j) \/ IsAbsPath(text, i, j)

\* C21: in every iteration in which the end the protector receives does not
\* lie strictly inside an image reference, a URL or a path of the text, the
\* protector returns that end unchanged.
C21_ExtendsOnlyWhenBisected ==
  \A k \in 1..Len(segs) :
    ~InsideToken(segs[k].sep_end) => segs[k].end = segs[k].sep_end

\* the last URL match within the final min(150, len) characters of the chunk
\* of iteration k ends within 10 positions of the end of the chunk
UrlNearEnd(k) ==
  LET chunk == ProtectedChunk(k)
      n == Min(150, Len(chunk))
      tail == SubSeq(chunk, Len(chunk) - n + 1, Len(chunk))
      last_end == LastUrlEnd(tail, 0, -1)
  IN  last_end # -1 /\ Len(tail) - last_end <= 10

\* C22: when the image check does not extend the end, the last URL match in
\* the tail of the chunk ends within 10 positions of the end of the chunk and
\* the text goes on with a character that is neither white space nor ')',
\* the emitted end is beyond the whole run of such characters: every
\* character the end was moved over is one, and the character at the new
\* end, if any, is white space or ')'.
C22_UrlExtendedOverRun ==
  \A k \in 1..Len(segs) :
    /\ ~ImageFires(k)
    /\ UrlNearEnd(k)
    /\ segs[k].sep_end < Len(text)
    /\ IsTokenChar(At(text, segs[k].sep_end))
    => /\ segs[k].end > segs[k].sep_end
       /\ \A q \in segs[k].sep_end..(segs[k].end - 1) :
            IsTokenChar(At(text, q))
       /\ segs[k].end < Len(text) => ~IsTokenChar(At(text, segs[k].end))

\* the URL check moved an end over a run of several characters up to a
\* white-space character or ')'
C22_Witness ==
  \E k \in 1..Len(segs) :
    /\ segs[k].kind = "url"
    /\ segs[k].end >= segs[k].sep_end + 2
    /\ segs[k].end < Len(text)
    /\ ~IsTokenChar(At(text, segs[k].end))

\* C23: in every iteration min(start + chunk_size, len(text)) is beyond
\* start and is the tentative end, and the end is still beyond start after
\* separator adjustment and after the protector, whose result is the emitted
\* end: neither branch that forces end = start + 1 is taken.
C23_ForceEndUnreachable ==
  \A k \in 1..Len(segs) :
    LET s == segs[k].start
    IN  /\ Min(s + chunk_size, Len(text)) > s
        /\ segs[k].tentative = Min(s + chunk_size, Len(text))
        /\ segs[k].sep_end > s
        /\ AvoidSplittingImages(text, s, segs[k].sep_end).end > s
        /\ segs[k].end = AvoidSplittingImages(text, s, segs[k].sep_end).end

\* a call has returned several segments, one of them from an iteration whose
\* end separator adjustment moved backward and one from an iteration that
\* began at the last character of the text
C23_Witness ==
  /\ Returned
  /\ \E k \in 1..Len(segs) : segs[k].sep_end < segs[k].tentative
  /\ \E k \in 1..Len(segs) : segs[k].start = Len(text) - 1

\* C24: for a chunker constructed with an empty list of separators, in
\* every iteration the end the protector receives is the tentative end
\* min(start + chunk_size, len(text)).
C24_EmptyListKeepsTentative ==
  \A k \in 1..Len(segs) :
    segs[k].sep_end = Min(segs[k].start + chunk_size, Len(text))

\* the start after iteration k was forced: end - chunk_overlap was not beyond
\* the start of the iteration
ForcedAfter(k) == segs[k].end - chunk_overlap <= segs[k].start

\* the start that follows iteration k
StartAfter(k) == IF k < Len(segs) THEN segs[k + 1].start ELSE start

C26_EndsStrictlyIncrease ==
  chunk_overlap >= 0 =>
    \A k \in 1..(Len(segs) - 1) :
      /\ segs[k].end < segs[k + 1].end
      /\ segs[k].end # Len(text)

\* C27: a ParseRequest that passed validation has chunk_size = -1 or
\* 100 <= chunk_size <= 100000, and 0 <= chunk_overlap < chunk_size, with
\* chunk_overlap = 0 when chunk_size = -1, and the constructor of TextChunker
\* accepts the pair.
C27_ValidatedPairAccepted ==
  request # <<>> =>
    LET cs == request[1].chunk_size
        ov == request[1].chunk_overlap
    IN  /\ cs = -1 \/ (100 <= cs /\ cs <= 100000)
        /\ 0 <= ov
        /\ IF cs = -1 THEN ov = 0 ELSE ov < cs
        /\ ~ConfigError(cs, ov)

\* C28: once parse has returned for a valid request on an existing file,
\* parse_file does not end in the HTTP 500 branch.
C28_ParseFileSucceeds ==
  steps # <<>> /\ steps[1] = "parse" => handler # "500"

\* C29: the 'language' recognize_and_format returns is the language
\* recognize_image passed to _get_reader in that call.
C29_LanguageIsModelUsed ==
  ocr.at = "returned" => ocr.language = ocr.reader_lang

\* C30: a character of SIMPLIFIED_CHARS is not counted as traditional, a
\* non-empty text made only of characters of SIMPLIFIED_CHARS is classified
\* simplified with a traditional count of 0, and a text with counted
\* characters is classified traditional exactly when traditional_count is at
\* least 0.3 of traditional_count + simplified_count.
C30_SharedNotTraditional ==
  detection # <<>> =>
    LET d == detection[1]
        total == d.traditional_count + d.simplified_count
    IN  /\ d.traditional_count =
             Cardinality({i \in 1..Len(d.text) :
                            /\ d.text[i] \in TRADITIONAL_CHARS
                            /\ d.text[i] \notin SIMPLIFIED_CHARS})
        /\ /\ d.text # <<>>
           /\ \A i \in 1..Len(d.text) : d.text[i] \in SIMPLIFIED_CHARS
           => d.chinese_type = "simplified" /\ d.traditional_count = 0
        /\ total > 0 =>
             (d.chinese_type = "traditional" <=>
                10 * d.traditional_count >= 3 * total)

=============================================================================
